---------------------------- MODULE Spec2Model ----------------------------
(***************************************************************************)
(* A model of gower (github.com/walkr/gower): the route table, the         *)
(* dispatcher Process/process with its recovery boundary, the template     *)
(* renderer with its cache, and the Stat counter with its mutex.           *)
(*                                                                         *)
(* Strings that the code indexes or matches (request paths, route          *)
(* patterns) are sequences of one-character strings; TLA+ sequences are    *)
(* 1-based, so Go's Matches[i] is Matches[i+1] here.                        *)
(***************************************************************************)
EXTENDS Integers, Sequences, FiniteSets, TLC

(***************************************************************************)
(* Bounds of the model.                                                    *)
(***************************************************************************)
\* Requests that enter Process in one behaviour of Spec (they may overlap).
MaxReqs == 2
\* Routes registered before Start in one behaviour of SpecRouting.
MaxRoutes == 2

(***************************************************************************)
(* regexp: the part of Go's regexp syntax and leftmost-first matching that *)
(* the route patterns use.                                                 *)
(***************************************************************************)

\* The bytes the model's patterns and paths use, in ASCII order.
Alphabet ==
    << "$", "(", ")", "*", "+", "-", "/", "?", "A", "B", "Z", "[", "]", "^",
       "a", "b", "e", "h", "i", "k", "l", "m", "o", "s", "t", "x", "y", "z", "|" >>

Ord(c) == CHOOSE k \in 1..Len(Alphabet) : Alphabet[k] = c

\* string(...) of a byte sequence.
RECURSIVE Str(_)
Str(s) == IF s = << >> THEN "" ELSE Head(s) \o Str(Tail(s))

ParseFail(i, n) == [ok |-> FALSE, node |-> << "fail" >>, i |-> i, n |-> n]

\* A bracket expression [x-yz...]: t[i] is the byte after "[".
RECURSIVE ParseClass(_, _, _, _)
ParseClass(t, i, n, ranges) ==
    IF i > Len(t) THEN ParseFail(i, n)
    ELSE IF t[i] = "]" /\ ranges # << >>
    THEN [ok |-> TRUE, node |-> << "class", ranges >>, i |-> i + 1, n |-> n]
    ELSE IF i + 2 <= Len(t) /\ t[i + 1] = "-" /\ t[i + 2] # "]"
    THEN IF Ord(t[i]) > Ord(t[i + 2]) THEN ParseFail(i, n)
         ELSE ParseClass(t, i + 3, n, Append(ranges, << Ord(t[i]), Ord(t[i + 2]) >>))
    ELSE ParseClass(t, i + 1, n, Append(ranges, << Ord(t[i]), Ord(t[i]) >>))

RECURSIVE ParseAlt(_, _, _, _), ParseCat(_, _, _, _), ParseRep(_, _, _), ParseAtom(_, _, _)

\* One atom: a group (capturing, numbered by its opening parenthesis), a
\* bracket expression, an anchor, or a literal byte.
ParseAtom(t, i, n) ==
    IF i > Len(t) THEN ParseFail(i, n)
    ELSE IF t[i] = "("
    THEN LET r == ParseAlt(t, i + 1, n + 1, << >>)
         IN  IF r.ok /\ r.i <= Len(t) /\ t[r.i] = ")"
             THEN [ok |-> TRUE, node |-> << "cap", n + 1, r.node >>,
                   i |-> r.i + 1, n |-> r.n]
             ELSE ParseFail(i, n)
    ELSE IF t[i] = "[" THEN ParseClass(t, i + 1, n, << >>)
    ELSE IF t[i] = "^" THEN [ok |-> TRUE, node |-> << "bol" >>, i |-> i + 1, n |-> n]
    ELSE IF t[i] = "$" THEN [ok |-> TRUE, node |-> << "eol" >>, i |-> i + 1, n |-> n]
    ELSE IF t[i] \in {"*", "+", "?"} THEN ParseFail(i, n)
    ELSE [ok |-> TRUE, node |-> << "lit", t[i] >>, i |-> i + 1, n |-> n]

\* An atom and its repetition operator, if any.
ParseRep(t, i, n) ==
    LET r == ParseAtom(t, i, n)
    IN  IF r.ok /\ r.i <= Len(t) /\ t[r.i] \in {"*", "+", "?"}
        THEN [r EXCEPT !.node = << (CASE t[r.i] = "*" -> "star"
                                      [] t[r.i] = "+" -> "plus"
                                      [] OTHER -> "quest"), r.node >>,
                       !.i = r.i + 1]
        ELSE r

\* A concatenation: repeated atoms up to "|", ")" or the end.
ParseCat(t, i, n, acc) ==
    IF i > Len(t) \/ t[i] \in {"|", ")"}
    THEN [ok |-> TRUE, node |-> << "cat", acc >>, i |-> i, n |-> n]
    ELSE LET r == ParseRep(t, i, n)
         IN  IF r.ok THEN ParseCat(t, r.i, r.n, Append(acc, r.node)) ELSE r

\* An alternation of concatenations: "|" binds weaker than concatenation.
ParseAlt(t, i, n, acc) ==
    LET r == ParseCat(t, i, n, << >>)
    IN  IF ~r.ok THEN r
        ELSE IF r.i <= Len(t) /\ t[r.i] = "|"
        THEN ParseAlt(t, r.i + 1, r.n, Append(acc, r.node))
        ELSE [r EXCEPT !.node = << "alt", Append(acc, r.node) >>]

\* The program of a valid expression.
Prog(expr) == ParseAlt(expr, 1, 0, << >>).node

\* regexp.Compile(expr): err (ok = FALSE), or the Regexp: its expression,
\* which determines its program Prog(expr), and its NumSubexp.
Compile(expr) ==
    LET r == ParseAlt(expr, 1, 0, << >>)
    IN  IF r.ok /\ r.i = Len(expr) + 1
        THEN [ok |-> TRUE, expr |-> expr, numSubexp |-> r.n]
        ELSE [ok |-> FALSE, expr |-> expr, numSubexp |-> 0]

InRanges(c, ranges) ==
    \E k \in 1..Len(ranges) : ranges[k][1] <= Ord(c) /\ Ord(c) <= ranges[k][2]

\* The matches of a node on s from offset pos (0-based), in the order a
\* backtracking matcher prefers them: each is the end offset and the capture
\* offsets.  Go's (non-POSIX) regexp returns the first of these.
RECURSIVE MatchNode(_, _, _, _), MatchCat(_, _, _, _, _), ThenCat(_, _, _, _, _),
          MatchAlt(_, _, _, _, _), ThenStar(_, _, _, _, _), SetCap(_, _, _, _)

Here(pos, caps) == << [pos |-> pos, caps |-> caps] >>

SetCap(rs, j, idx, pos) ==
    IF j > Len(rs) THEN << >>
    ELSE << [rs[j] EXCEPT !.caps[idx] = << pos, rs[j].pos >>] >>
         \o SetCap(rs, j + 1, idx, pos)

MatchCat(nodes, k, s, pos, caps) ==
    IF k > Len(nodes) THEN Here(pos, caps)
    ELSE ThenCat(MatchNode(nodes[k], s, pos, caps), 1, nodes, k + 1, s)

ThenCat(rs, j, nodes, k, s) ==
    IF j > Len(rs) THEN << >>
    ELSE MatchCat(nodes, k, s, rs[j].pos, rs[j].caps) \o ThenCat(rs, j + 1, nodes, k, s)

MatchAlt(nodes, k, s, pos, caps) ==
    IF k > Len(nodes) THEN << >>
    ELSE MatchNode(nodes[k], s, pos, caps) \o MatchAlt(nodes, k + 1, s, pos, caps)

\* Greedy repetition: after one more iteration that consumed input, repeat.
ThenStar(rs, j, node, s, pos) ==
    IF j > Len(rs) THEN << >>
    ELSE (IF rs[j].pos > pos THEN MatchNode(node, s, rs[j].pos, rs[j].caps) ELSE << >>)
         \o ThenStar(rs, j + 1, node, s, pos)

MatchNode(node, s, pos, caps) ==
    CASE node[1] = "lit" ->
            IF pos < Len(s) /\ s[pos + 1] = node[2] THEN Here(pos + 1, caps) ELSE << >>
      [] node[1] = "class" ->
            IF pos < Len(s) /\ InRanges(s[pos + 1], node[2]) THEN Here(pos + 1, caps)
            ELSE << >>
      [] node[1] = "bol" -> IF pos = 0 THEN Here(pos, caps) ELSE << >>
      [] node[1] = "eol" -> IF pos = Len(s) THEN Here(pos, caps) ELSE << >>
      [] node[1] = "cat" -> MatchCat(node[2], 1, s, pos, caps)
      [] node[1] = "alt" -> MatchAlt(node[2], 1, s, pos, caps)
      [] node[1] = "cap" -> SetCap(MatchNode(node[3], s, pos, caps), 1, node[2], pos)
      [] node[1] = "star" ->
            ThenStar(MatchNode(node[2], s, pos, caps), 1, node, s, pos) \o Here(pos, caps)
      [] node[1] = "plus" -> MatchCat(<< node[2], << "star", node[2] >> >>, 1, s, pos, caps)
      [] node[1] = "quest" -> MatchNode(node[2], s, pos, caps) \o Here(pos, caps)
      [] OTHER -> << >>

NoCaps(n) == [k \in 1..n |-> << -1, -1 >>]

\* The submatch strings of one match of an expression with n groups: the
\* matched text, then each group's text ("" for a group that did not take part).
Submatches(n, s, start, m) ==
    << Str(SubSeq(s, start + 1, m.pos)) >>
    \o [k \in 1..n |->
            IF m.caps[k][1] < 0 THEN ""
            ELSE Str(SubSeq(s, m.caps[k][1] + 1, m.caps[k][2]))]

\* The leftmost match of the program from offset start on; nil is << >>.
RECURSIVE FindFrom(_, _, _, _)
FindFrom(prog, n, s, start) ==
    IF start > Len(s) THEN << >>
    ELSE LET rs == MatchNode(prog, s, start, NoCaps(n))
         IN  IF rs # << >> THEN Submatches(n, s, start, rs[1])
             ELSE FindFrom(prog, n, s, start + 1)

\* (*Regexp).FindStringSubmatch
FindStringSubmatch(re, s) == FindFrom(Prog(re.expr), re.numSubexp, s, 0)

(***************************************************************************)
(* The program's state.                                                    *)
(***************************************************************************)
VARIABLES
    phase,          \* "init": main() registers routes; "serving": Start() runs;
                    \* "exited": log.Fatal; "crashed": a fatal runtime error
    ServerConfig,   \* [Routes, Debug]
    ServerStat,     \* [TotalReqs, Reqs, locked]: the Stat and its embedded Mutex
    templateCache,  \* path -> compiled template
    disk,           \* template file -> its content ("" when it cannot be loaded)
    compiles,       \* path -> successful pongo2.FromFile calls so far
    req             \* request id -> the goroutine serving it

vars == << phase, ServerConfig, ServerStat, templateCache, disk, compiles, req >>

Methods == {"GET", "POST"}

\* The handlers of the README's application, two that panic, and one that
\* sets the response status itself.
HandlerNames == {"hello", "sayHi", "serverStats", "boom", "leak", "lost"}

TemplateFile == "www/templates/say-hi.html"
TemplateV1 == "Hi {{name}}"
TemplateV2 == "Hello {{name}}"

\* template.Execute(data) of a compiled template on data["name"].
Execute(template, name) ==
    IF template = TemplateV1 THEN "Hi " \o name ELSE "Hello " \o name

\* strconv.Itoa for n >= 0.
RECURSIVE Itoa(_)
Itoa(n) ==
    LET digit == << "0", "1", "2", "3", "4", "5", "6", "7", "8", "9" >>
    IN  IF n < 10 THEN digit[n + 1] ELSE Itoa(n \div 10) \o digit[(n % 10) + 1]

(***************************************************************************)
(* http.ResponseWriter: the status line is sent once, by the first          *)
(* WriteHeader or the first Write; later WriteHeader calls change nothing. *)
(***************************************************************************)
NoResponse == [status |-> 0, body |-> << >>]

WriteHeader(res, code) == IF res.status = 0 THEN [res EXCEPT !.status = code] ELSE res

ResWrite(res, data) == [WriteHeader(res, 200) EXCEPT !.body = Append(@, data)]

\* http.Error(w, msg, code)
HttpError(res, msg, code) == ResWrite(WriteHeader(res, code), msg \o "\n")

(***************************************************************************)
(* Routes.                                                                 *)
(***************************************************************************)
\* NewRoute: the compiled expression of "^" + pattern + "$".
NewRoute(pattern, method, handler) ==
    [re |-> Compile(<< "^" >> \o pattern \o << "$" >>), method |-> method,
     handler |-> handler]

\* RegisterRoute that puts the new route in front of the earlier ones.
RegisterRoutePrepend(pattern, method, handler) ==
    /\ phase = "init"
    /\ LET route == NewRoute(pattern, method, handler)
       IN  IF route.re.ok
           THEN /\ ServerConfig' = [ServerConfig EXCEPT !.Routes = << route >> \o @]
                /\ phase' = phase
           ELSE /\ phase' = "exited"
                /\ ServerConfig' = ServerConfig
    /\ UNCHANGED << ServerStat, templateCache, disk, compiles, req >>

\* RegisterRoute (Get, Post, Put, Delete call it with their method): append
\* the new route; a pattern that does not compile ends the process.
RegisterRoute(pattern, method, handler) ==
    /\ phase = "init"
    /\ LET route == NewRoute(pattern, method, handler)
       IN  IF route.re.ok
           THEN /\ ServerConfig' = [ServerConfig EXCEPT !.Routes = Append(@, route)]
                /\ phase' = phase
           ELSE /\ phase' = "exited"
                /\ ServerConfig' = ServerConfig
    /\ UNCHANGED << ServerStat, templateCache, disk, compiles, req >>

\* Start: from here on the HTTP server calls Process for each request.
Start ==
    /\ phase = "init"
    /\ phase' = "serving"
    /\ UNCHANGED << ServerConfig, ServerStat, templateCache, disk, compiles, req >>

(***************************************************************************)
(* Process / process.                                                      *)
(***************************************************************************)
Idle ==
    [pc |-> "idle", Path |-> << >>, Method |-> "", foundPattern |-> FALSE,
     foundMethod |-> FALSE, routeToExecute |-> 0, Matches |-> << >>,
     statusCode |-> 0, res |-> NoResponse, invoked |-> << >>, incs |-> << >>,
     logs |-> 0, tmp |-> 0, template |-> "", renderErr |-> "",
     snap |-> [TotalReqs |-> 0, Reqs |-> << >>]]

\* Process up to its call of process: a request enters.
Process(r, path, method) ==
    /\ phase = "serving"
    /\ req[r].pc = "idle"
    /\ r > 1 => req[r - 1].pc # "idle"
    /\ req' = [req EXCEPT ![r].pc = "process", ![r].Path = path, ![r].Method = method]
    /\ UNCHANGED << phase, ServerConfig, ServerStat, templateCache, disk, compiles >>

\* FindRoute with a loop that stops at the first route whose pattern matches,
\* whatever its method.
RECURSIVE FindRouteFirstPattern(_, _, _, _, _)
FindRouteFirstPattern(routes, k, path, method, st) ==
    IF k > Len(routes) THEN st
    ELSE LET matches == FindStringSubmatch(routes[k].re, path)
         IN  IF matches # << >>
             THEN IF routes[k].method = method
                  THEN [foundPattern |-> TRUE, foundMethod |-> TRUE,
                        routeToExecute |-> k, foundMatches |-> matches]
                  ELSE [st EXCEPT !.foundPattern = TRUE, !.foundMethod = FALSE]
             ELSE FindRouteFirstPattern(routes, k + 1, path, method, st)

\* FindRoute with a loop that lacks the break: the last matching route stays.
RECURSIVE FindRouteNoBreak(_, _, _, _, _)
FindRouteNoBreak(routes, k, path, method, st) ==
    IF k > Len(routes) THEN st
    ELSE LET matches == FindStringSubmatch(routes[k].re, path)
         IN  IF matches # << >>
             THEN IF routes[k].method = method
                  THEN FindRouteNoBreak(routes, k + 1, path, method,
                            [foundPattern |-> TRUE, foundMethod |-> TRUE,
                             routeToExecute |-> k, foundMatches |-> matches])
                  ELSE FindRouteNoBreak(routes, k + 1, path, method,
                            [st EXCEPT !.foundPattern = TRUE])
             ELSE FindRouteNoBreak(routes, k + 1, path, method, st)

\* The loop of process over ServerConfig.Routes from index k, on the loop's
\* variables st.
RECURSIVE FindRoute(_, _, _, _, _)
FindRoute(routes, k, path, method, st) ==
    IF k > Len(routes) THEN st
    ELSE LET matches == FindStringSubmatch(routes[k].re, path)
         IN  IF matches # << >>
             THEN IF routes[k].method = method
                  THEN [foundPattern |-> TRUE, foundMethod |-> TRUE,
                        routeToExecute |-> k, foundMatches |-> matches]
                  ELSE FindRoute(routes, k + 1, path, method,
                                 [st EXCEPT !.foundPattern = TRUE, !.foundMethod = FALSE])
             ELSE FindRoute(routes, k + 1, path, method, st)

\* process from its start to the handler's call: find the route, answer 404
\* or 405, or call the handler.
process(r) ==
    /\ phase = "serving"
    /\ req[r].pc = "process"
    /\ \E st \in {FindRoute(ServerConfig.Routes, 1, req[r].Path, req[r].Method,
                           [foundPattern |-> FALSE, foundMethod |-> FALSE,
                            routeToExecute |-> 0, foundMatches |-> << >>])} :
       LET code == IF ~st.foundPattern THEN 404
                   ELSE IF ~st.foundMethod THEN 405 ELSE 200
           res == IF code = 404 THEN HttpError(req[r].res, "Not Found", 404)
                  ELSE IF code = 405 THEN HttpError(req[r].res, "Method not allowed", 405)
                  ELSE req[r].res
           call == st.foundMethod /\ st.foundPattern
       IN  req' = [req EXCEPT
                ![r].foundPattern = st.foundPattern,
                ![r].foundMethod = st.foundMethod,
                ![r].routeToExecute = st.routeToExecute,
                ![r].Matches = st.foundMatches,
                ![r].statusCode = code,
                ![r].res = res,
                ![r].invoked = IF call THEN Append(@, st.routeToExecute) ELSE @,
                ![r].pc = IF call THEN "handler" ELSE "finish"]
    /\ UNCHANGED << phase, ServerConfig, ServerStat, templateCache, disk, compiles >>

Handler(r) == ServerConfig.Routes[req[r].routeToExecute].handler

InHandler(r, name) ==
    /\ phase = "serving"
    /\ req[r].pc = "handler"
    /\ Handler(r) = name

\* hello: c.Write("Hello World")
hello(r) ==
    /\ InHandler(r, "hello")
    /\ req' = [req EXCEPT ![r].res = ResWrite(@, "Hello World"), ![r].pc = "finish"]
    /\ UNCHANGED << phase, ServerConfig, ServerStat, templateCache, disk, compiles >>

\* A handler that panics before it writes anything.
boom(r) ==
    /\ InHandler(r, "boom")
    /\ req' = [req EXCEPT ![r].pc = "recover"]
    /\ UNCHANGED << phase, ServerConfig, ServerStat, templateCache, disk, compiles >>

\* A handler that panics after c.Write has sent part of the response.
leak(r) ==
    /\ InHandler(r, "leak")
    /\ req' = [req EXCEPT ![r].res = ResWrite(@, "secret"), ![r].pc = "recover"]
    /\ UNCHANGED << phase, ServerConfig, ServerStat, templateCache, disk, compiles >>

\* A handler that answers with a status of its own and returns:
\* c.Res.WriteHeader(410).
lost(r) ==
    /\ InHandler(r, "lost")
    /\ req' = [req EXCEPT ![r].res = WriteHeader(@, 410), ![r].pc = "finish"]
    /\ UNCHANGED << phase, ServerConfig, ServerStat, templateCache, disk, compiles >>

\* sayHi: c.Matches[1] (a runtime panic when the pattern has no group), then
\* c.WriteTemplate("say-hi.html", data) up to its call of renderTemplate.
sayHi(r) ==
    /\ InHandler(r, "sayHi")
    /\ req' = [req EXCEPT ![r].pc = IF Len(req[r].Matches) < 2 THEN "recover"
                                    ELSE "render"]
    /\ UNCHANGED << phase, ServerConfig, ServerStat, templateCache, disk, compiles >>

(***************************************************************************)
(* renderTemplate, called by WriteTemplate.                                *)
(***************************************************************************)
\* pongo2.FromFile(filepath): the compiled template, or an error.
FromFile(path) == [err |-> disk[path] = "", template |-> disk[path]]

CountCompile(path, loaded) ==
    IF loaded.err THEN compiles ELSE [compiles EXCEPT ![path] = @ + 1]

\* Debug: read the template from the disk every time.
renderDebug(r) ==
    /\ phase = "serving"
    /\ req[r].pc = "render"
    /\ ServerConfig.Debug
    /\ LET loaded == FromFile(TemplateFile)
       IN  /\ compiles' = CountCompile(TemplateFile, loaded)
           /\ req' = [req EXCEPT ![r].template = loaded.template,
                                 ![r].renderErr = IF loaded.err THEN "load" ELSE @,
                                 ![r].pc = IF loaded.err THEN "recover" ELSE "execute"]
    /\ UNCHANGED << phase, ServerConfig, ServerStat, templateCache, disk >>

\* renderLookup behind a mutex held from the lookup to the store: it waits
\* while another request is between its lookup and its store.
renderLookupExclusive(r) ==
    /\ phase = "serving"
    /\ req[r].pc = "render"
    /\ ~ServerConfig.Debug
    /\ \A o \in DOMAIN req : req[o].pc \notin {"load", "store"}
    /\ LET ok == TemplateFile \in DOMAIN templateCache
       IN  req' = [req EXCEPT ![r].template = IF ok THEN templateCache[TemplateFile] ELSE "",
                              ![r].pc = IF ok THEN "execute" ELSE "load"]
    /\ UNCHANGED << phase, ServerConfig, ServerStat, templateCache, disk, compiles >>

\* cached, ok := templateCache[filepath]
renderLookup(r) ==
    /\ phase = "serving"
    /\ req[r].pc = "render"
    /\ ~ServerConfig.Debug
    /\ LET ok == TemplateFile \in DOMAIN templateCache
       IN  req' = [req EXCEPT ![r].template = IF ok THEN templateCache[TemplateFile] ELSE "",
                              ![r].pc = IF ok THEN "execute" ELSE "load"]
    /\ UNCHANGED << phase, ServerConfig, ServerStat, templateCache, disk, compiles >>

\* renderLoad that swallows the error of FromFile and goes on with an empty
\* template.
renderLoadSwallow(r) ==
    /\ phase = "serving"
    /\ req[r].pc = "load"
    /\ LET loaded == FromFile(TemplateFile)
       IN  /\ compiles' = CountCompile(TemplateFile, loaded)
           /\ req' = [req EXCEPT ![r].template = loaded.template,
                                 ![r].renderErr = IF loaded.err THEN "load" ELSE @,
                                 ![r].pc = "store"]
    /\ UNCHANGED << phase, ServerConfig, ServerStat, templateCache, disk >>

\* newTemplate, err := pongo2.FromFile(filepath) after a cache miss
renderLoad(r) ==
    /\ phase = "serving"
    /\ req[r].pc = "load"
    /\ LET loaded == FromFile(TemplateFile)
       IN  /\ compiles' = CountCompile(TemplateFile, loaded)
           /\ req' = [req EXCEPT ![r].template = loaded.template,
                                 ![r].renderErr = IF loaded.err THEN "load" ELSE @,
                                 ![r].pc = IF loaded.err THEN "recover" ELSE "store"]
    /\ UNCHANGED << phase, ServerConfig, ServerStat, templateCache, disk >>

\* templateCache[filepath] = *newTemplate
renderStore(r) ==
    /\ phase = "serving"
    /\ req[r].pc = "store"
    /\ templateCache' = [p \in DOMAIN templateCache \cup {TemplateFile} |->
                            IF p = TemplateFile THEN req[r].template ELSE templateCache[p]]
    /\ req' = [req EXCEPT ![r].pc = "execute"]
    /\ UNCHANGED << phase, ServerConfig, ServerStat, disk, compiles >>

\* out, err = template.Execute(data), then WriteTemplate's c.Res.Write(str)
renderExecute(r, err) ==
    /\ phase = "serving"
    /\ req[r].pc = "execute"
    /\ req' = [req EXCEPT
            ![r].res = IF err THEN @
                       ELSE ResWrite(@, Execute(req[r].template, req[r].Matches[2])),
            ![r].renderErr = IF err THEN "execute" ELSE @,
            ![r].pc = IF err THEN "recover" ELSE "finish"]
    /\ UNCHANGED << phase, ServerConfig, ServerStat, templateCache, disk, compiles >>

\* Two goroutines at templateCache at once, one of them writing it, with
\* nothing ordering them: the Go runtime may stop the process ("fatal error:
\* concurrent map writes" / "concurrent map read and map write").
templateCacheRace(r1, r2) ==
    /\ phase = "serving"
    /\ r1 # r2
    /\ req[r1].pc = "store"
    /\ \/ req[r2].pc = "store"
       \/ req[r2].pc = "render" /\ ~ServerConfig.Debug
    /\ phase' = "crashed"
    /\ UNCHANGED << ServerConfig, ServerStat, templateCache, disk, compiles, req >>

\* The template file is created, or edited, while the server runs.
EditFile ==
    /\ phase = "serving"
    /\ disk[TemplateFile] # TemplateV2
    /\ disk' = [disk EXCEPT ![TemplateFile] = IF @ = "" THEN TemplateV1 ELSE TemplateV2]
    /\ UNCHANGED << phase, ServerConfig, ServerStat, templateCache, compiles, req >>

(***************************************************************************)
(* serverStats: c.WriteJson(gower.ServerStat).  json.Marshal reads the      *)
(* fields of the Stat in their order, without taking its mutex.            *)
(***************************************************************************)
serverStats(r) ==
    /\ InHandler(r, "serverStats")
    /\ req' = [req EXCEPT ![r].snap.TotalReqs = ServerStat.TotalReqs, ![r].pc = "marshal"]
    /\ UNCHANGED << phase, ServerConfig, ServerStat, templateCache, disk, compiles >>

marshalReqs(r) ==
    /\ phase = "serving"
    /\ req[r].pc = "marshal"
    /\ req' = [req EXCEPT ![r].snap.Reqs = ServerStat.Reqs,
                          ![r].res = ResWrite(@, "{\"TotalReqs\":"
                                                 \o Itoa(req[r].snap.TotalReqs) \o "}"),
                          ![r].pc = "finish"]
    /\ UNCHANGED << phase, ServerConfig, ServerStat, templateCache, disk, compiles >>

(***************************************************************************)
(* The end of process, the recovery of Process, and Stat.Increment.        *)
(***************************************************************************)
\* logRequest when Debug, then the call ServerStat.Increment(statusCode, duration).
finish(r) ==
    /\ phase = "serving"
    /\ req[r].pc = "finish"
    /\ req' = [req EXCEPT ![r].logs = IF ServerConfig.Debug THEN @ + 1 ELSE @,
                          ![r].incs = Append(@, req[r].statusCode),
                          ![r].pc = "Lock"]
    /\ UNCHANGED << phase, ServerConfig, ServerStat, templateCache, disk, compiles >>

\* recover without its call of Increment.
recoverWithoutIncrement(r) ==
    /\ phase = "serving"
    /\ req[r].pc = "recover"
    /\ req' = [req EXCEPT ![r].logs = @ + 1,
                          ![r].res = HttpError(@, "Server Error", 500),
                          ![r].pc = "done"]
    /\ UNCHANGED << phase, ServerConfig, ServerStat, templateCache, disk, compiles >>

\* The deferred function of Process on a panic: logRequest, http.Error 500,
\* then the call ServerStat.Increment(500, ...).
recover(r) ==
    /\ phase = "serving"
    /\ req[r].pc = "recover"
    /\ req' = [req EXCEPT ![r].logs = @ + 1,
                          ![r].res = HttpError(@, "Server Error", 500),
                          ![r].incs = Append(@, 500),
                          ![r].pc = "Lock"]
    /\ UNCHANGED << phase, ServerConfig, ServerStat, templateCache, disk, compiles >>

\* The status Increment was called with.
IncArg(r) == req[r].incs[Len(req[r].incs)]

\* s.Lock()
MutexFree == ~ServerStat.locked

\* Lock that does not wait for the mutex.
LockNoWait(r) ==
    /\ phase = "serving"
    /\ req[r].pc = "Lock"
    /\ ServerStat' = [ServerStat EXCEPT !.locked = TRUE]
    /\ req' = [req EXCEPT ![r].pc = "readTotal"]
    /\ UNCHANGED << phase, ServerConfig, templateCache, disk, compiles >>

Lock(r) ==
    /\ phase = "serving"
    /\ req[r].pc = "Lock"
    /\ MutexFree
    /\ ServerStat' = [ServerStat EXCEPT !.locked = TRUE]
    /\ req' = [req EXCEPT ![r].pc = "readTotal"]
    /\ UNCHANGED << phase, ServerConfig, templateCache, disk, compiles >>

\* s.TotalReqs += 1: the read, then the write.
readTotal(r) ==
    /\ phase = "serving"
    /\ req[r].pc = "readTotal"
    /\ req' = [req EXCEPT ![r].tmp = ServerStat.TotalReqs, ![r].pc = "writeTotal"]
    /\ UNCHANGED << phase, ServerConfig, ServerStat, templateCache, disk, compiles >>

\* writeTotal as s.TotalReqs += 2.
writeTotalTwice(r) ==
    /\ phase = "serving"
    /\ req[r].pc = "writeTotal"
    /\ ServerStat' = [ServerStat EXCEPT !.TotalReqs = req[r].tmp + 2]
    /\ req' = [req EXCEPT ![r].pc = "readReqs"]
    /\ UNCHANGED << phase, ServerConfig, templateCache, disk, compiles >>

writeTotal(r) ==
    /\ phase = "serving"
    /\ req[r].pc = "writeTotal"
    /\ ServerStat' = [ServerStat EXCEPT !.TotalReqs = req[r].tmp + 1]
    /\ req' = [req EXCEPT ![r].pc = "readReqs"]
    /\ UNCHANGED << phase, ServerConfig, templateCache, disk, compiles >>

\* status := strconv.Itoa(statusCode); s.Reqs[status] += 1: the read (0 for a
\* missing key), then the write.
readReqs(r) ==
    /\ phase = "serving"
    /\ req[r].pc = "readReqs"
    /\ LET status == Itoa(IncArg(r))
       IN  req' = [req EXCEPT ![r].tmp = IF status \in DOMAIN ServerStat.Reqs
                                         THEN ServerStat.Reqs[status] ELSE 0,
                              ![r].pc = "writeReqs"]
    /\ UNCHANGED << phase, ServerConfig, ServerStat, templateCache, disk, compiles >>

ReqsPut(reqs, status, n) ==
    [k \in DOMAIN reqs \cup {status} |-> IF k = status THEN n ELSE reqs[k]]

\* writeReqs as s.Reqs[status] = 1.
writeReqsOverwrite(r) ==
    /\ phase = "serving"
    /\ req[r].pc = "writeReqs"
    /\ ServerStat' = [ServerStat EXCEPT !.Reqs = ReqsPut(@, Itoa(IncArg(r)), 1)]
    /\ req' = [req EXCEPT ![r].pc = "Unlock"]
    /\ UNCHANGED << phase, ServerConfig, templateCache, disk, compiles >>

writeReqs(r) ==
    /\ phase = "serving"
    /\ req[r].pc = "writeReqs"
    /\ ServerStat' = [ServerStat EXCEPT !.Reqs = ReqsPut(@, Itoa(IncArg(r)), req[r].tmp + 1)]
    /\ req' = [req EXCEPT ![r].pc = "Unlock"]
    /\ UNCHANGED << phase, ServerConfig, templateCache, disk, compiles >>

\* The deferred s.Unlock(); Increment, process and Process return, and the
\* HTTP server sends status 200 if the handler wrote nothing.
Unlock(r) ==
    /\ phase = "serving"
    /\ req[r].pc = "Unlock"
    /\ ServerStat' = [ServerStat EXCEPT !.locked = FALSE]
    /\ req' = [req EXCEPT ![r].res = WriteHeader(@, 200), ![r].pc = "done"]
    /\ UNCHANGED << phase, ServerConfig, templateCache, disk, compiles >>

\* json.Marshal reading the Reqs map while Increment writes it: the Go runtime
\* may stop the process ("fatal error: concurrent map read and map write").
statRace(r1, r2) ==
    /\ phase = "serving"
    /\ r1 # r2
    /\ req[r1].pc = "writeReqs"
    /\ req[r2].pc = "marshal"
    /\ phase' = "crashed"
    /\ UNCHANGED << ServerConfig, ServerStat, templateCache, disk, compiles, req >>

(***************************************************************************)
(* Spec: the README's application (with two panicking handlers and one     *)
(* that sets its own status) serving MaxReqs requests that may overlap.    *)
(***************************************************************************)
PatHello == << "/", "h", "e", "l", "l", "o" >>
PatSayHi ==
    << "/", "s", "a", "y", "-", "h", "i", "/",
       "(", "[", "a", "-", "z", "A", "-", "Z", "]", "+", ")" >>
PatStats == << "/", "s", "t", "a", "t", "s" >>
PatBoom == << "/", "b", "o", "o", "m" >>
PatLeak == << "/", "l", "e", "a", "k" >>
PatLost == << "/", "l", "o", "s", "t" >>

PathSayHiBob == << "/", "s", "a", "y", "-", "h", "i", "/", "B", "o", "b" >>
PathX == << "/", "x" >>

\* main(): gower.Get(pattern, handler) for each, in this order.
AppRoutes ==
    << << PatHello, "GET", "hello" >>,
       << PatSayHi, "GET", "sayHi" >>,
       << PatStats, "GET", "serverStats" >>,
       << PatBoom, "GET", "boom" >>,
       << PatLeak, "GET", "leak" >>,
       << PatLost, "GET", "lost" >> >>

AppRequests ==
    { << PatHello, "GET" >>, << PatHello, "POST" >>, << PathX, "GET" >>,
      << PathSayHiBob, "GET" >>, << PatStats, "GET" >>, << PatBoom, "GET" >>,
      << PatLeak, "GET" >>, << PatLost, "GET" >> }

ReqIds == 1..MaxReqs

NewStat == [TotalReqs |-> 0, Reqs |-> << >>, locked |-> FALSE]

Init ==
    /\ phase = "serving"
    /\ \E debug \in BOOLEAN :
          ServerConfig =
              [Routes |-> [k \in 1..Len(AppRoutes) |->
                              NewRoute(AppRoutes[k][1], AppRoutes[k][2], AppRoutes[k][3])],
               Debug |-> debug]
    /\ ServerStat = NewStat
    /\ templateCache = << >>
    /\ disk \in [{TemplateFile} -> {"", TemplateV1}]
    /\ compiles = [p \in {TemplateFile} |-> 0]
    /\ req = [r \in ReqIds |-> Idle]

Next ==
    \/ \E r \in ReqIds, rq \in AppRequests : Process(r, rq[1], rq[2])
    \/ \E r \in ReqIds : process(r)
    \/ \E r \in ReqIds : hello(r)
    \/ \E r \in ReqIds : boom(r)
    \/ \E r \in ReqIds : leak(r)
    \/ \E r \in ReqIds : lost(r)
    \/ \E r \in ReqIds : sayHi(r)
    \/ \E r \in ReqIds : renderDebug(r)
    \/ \E r \in ReqIds : renderLookup(r)
    \/ \E r \in ReqIds : renderLoad(r)
    \/ \E r \in ReqIds : renderStore(r)
    \/ \E r \in ReqIds, err \in BOOLEAN : renderExecute(r, err)
    \/ \E r1, r2 \in ReqIds : templateCacheRace(r1, r2)
    \/ EditFile
    \/ \E r \in ReqIds : serverStats(r)
    \/ \E r \in ReqIds : marshalReqs(r)
    \/ \E r1, r2 \in ReqIds : statRace(r1, r2)
    \/ \E r \in ReqIds : finish(r)
    \/ \E r \in ReqIds : recover(r)
    \/ \E r \in ReqIds : Lock(r)
    \/ \E r \in ReqIds : readTotal(r)
    \/ \E r \in ReqIds : writeTotal(r)
    \/ \E r \in ReqIds : readReqs(r)
    \/ \E r \in ReqIds : writeReqs(r)
    \/ \E r \in ReqIds : Unlock(r)

Spec == Init /\ [][Next]_vars

\* The goroutine of request r after the route loop of process: the handler,
\* the end of process or the recovery of Process, and Increment.
Step(r) ==
    \/ hello(r)
    \/ boom(r)
    \/ leak(r)
    \/ lost(r)
    \/ sayHi(r)
    \/ renderDebug(r)
    \/ renderLookup(r)
    \/ renderLoad(r)
    \/ renderStore(r)
    \/ \E err \in BOOLEAN : renderExecute(r, err)
    \/ serverStats(r)
    \/ marshalReqs(r)
    \/ finish(r)
    \/ recover(r)
    \/ Lock(r)
    \/ readTotal(r)
    \/ writeTotal(r)
    \/ readReqs(r)
    \/ writeReqs(r)
    \/ Unlock(r)

\* The enabling condition of process(r): the route loop never blocks.
AtRouteLoop(r) == phase = "serving" /\ req[r].pc = "process"

\* The Go scheduler runs every goroutine that can run, and every handler of
\* the application returns or panics.  For process(r), which is enabled
\* exactly when AtRouteLoop(r) and then leaves the route loop, weak fairness
\* is []<>~AtRouteLoop(r).  Nothing obliges a request to arrive, the file to
\* change, or a data race to end in a fatal error.
Fairness ==
    \A r \in ReqIds :
        /\ []<>~AtRouteLoop(r)
        /\ WF_vars(Step(r))

SpecFair == Spec /\ Fairness

(***************************************************************************)
(* SpecRouting: main() registers up to MaxRoutes routes of its choice for   *)
(* the handler hello, calls Start, and one request is processed.           *)
(***************************************************************************)
PatX == << "/", "x" >>
PatAltTop == << "/", "a", "|", "/", "a", "b" >>
PatAltGroup == << "/", "(", "a", "|", "a", "b", ")" >>
PatBad == << "/", "(" >>

RoutingPatterns == {PatX, PatSayHi, PatAltTop, PatAltGroup, PatBad}

RoutingHandlers == {"hello"}

RoutingPaths ==
    { PathX, PathSayHiBob, << "/", "a" >>, << "/", "a", "b" >>,
      << "/", "a", "b", "x" >>, << "/", "x", "/", "a", "b" >>, << "/", "y" >> }

InitRouting ==
    /\ phase = "init"
    /\ ServerConfig = [Routes |-> << >>, Debug |-> FALSE]
    /\ ServerStat = NewStat
    /\ templateCache = << >>
    /\ disk = [p \in {TemplateFile} |-> TemplateV1]
    /\ compiles = [p \in {TemplateFile} |-> 0]
    /\ req = [r \in ReqIds |-> Idle]

NextRouting ==
    \/ \E pattern \in RoutingPatterns, method \in Methods, handler \in RoutingHandlers :
          /\ Len(ServerConfig.Routes) < MaxRoutes
          /\ RegisterRoute(pattern, method, handler)
    \/ Start
    \/ \E path \in RoutingPaths, method \in Methods : Process(1, path, method)
    \/ process(1)
    \/ hello(1)
    \/ finish(1)
    \/ Lock(1)
    \/ readTotal(1)
    \/ writeTotal(1)
    \/ readReqs(1)
    \/ writeReqs(1)
    \/ Unlock(1)

SpecRouting == InitRouting /\ [][NextRouting]_vars

(***************************************************************************)
(* SpecTable: main() registers up to MaxRoutes routes for the handlers     *)
(* hello and boom, calls Start, and one request is processed, with or      *)
(* without Debug.                                                          *)
(***************************************************************************)
TablePatterns == {PatX, PatBoom, PatBad}

TableHandlers == {"hello", "boom"}

TablePaths == {PathX, PatBoom, << "/", "y" >>}

InitTable ==
    /\ phase = "init"
    /\ \E debug \in BOOLEAN : ServerConfig = [Routes |-> << >>, Debug |-> debug]
    /\ ServerStat = NewStat
    /\ templateCache = << >>
    /\ disk = [p \in {TemplateFile} |-> TemplateV1]
    /\ compiles = [p \in {TemplateFile} |-> 0]
    /\ req = [r \in ReqIds |-> Idle]

NextTable ==
    \/ \E pattern \in TablePatterns, method \in Methods, handler \in TableHandlers :
          /\ Len(ServerConfig.Routes) < MaxRoutes
          /\ RegisterRoute(pattern, method, handler)
    \/ Start
    \/ \E path \in TablePaths, method \in Methods : Process(1, path, method)
    \/ process(1)
    \/ hello(1)
    \/ boom(1)
    \/ finish(1)
    \/ recover(1)
    \/ Lock(1)
    \/ readTotal(1)
    \/ writeTotal(1)
    \/ readReqs(1)
    \/ writeReqs(1)
    \/ Unlock(1)

SpecTable == InitTable /\ [][NextTable]_vars

(***************************************************************************)
(* Properties.                                                             *)
(***************************************************************************)
Routes == ServerConfig.Routes

\* The request has gone through the route loop of process.
Dispatched(r) == req[r].pc \notin {"idle", "process"}

\* Route k's compiled expression finds a match in the path.
PatternMatches(k, path) == FindStringSubmatch(Routes[k].re, path) # << >>

PatternRoutes(r) == {k \in 1..Len(Routes) : PatternMatches(k, req[r].Path)}

BothRoutes(r) == {k \in PatternRoutes(r) : Routes[k].method = req[r].Method}

Earliest(S) == CHOOSE k \in S : \A j \in S : k <= j

\* The pattern a route was registered with: its expression without the "^"
\* and "$" that NewRoute added.
PatternOf(route) == SubSeq(route.re.expr, 2, Len(route.re.expr) - 1)

\* The matches of the pattern p, compiled on its own, that start at the first
\* byte of s and end at its last, in the matcher's order of preference.
RECURSIVE WholeOnly(_, _, _)
WholeOnly(rs, j, s) ==
    IF j > Len(rs) THEN << >>
    ELSE (IF rs[j].pos = Len(s) THEN << rs[j] >> ELSE << >>) \o WholeOnly(rs, j + 1, s)

WholeMatches(p, s) ==
    WholeOnly(MatchNode(Prog(p), s, 0, NoCaps(Compile(p).numSubexp)), 1, s)

\* p matches the entire path s.
FullMatch(p, s) == WholeMatches(p, s) # << >>

\* The submatches of p on the entire path s: the path, then the groups.
WholeSubmatches(p, s) ==
    IF FullMatch(p, s) THEN Submatches(Compile(p).numSubexp, s, 0, WholeMatches(p, s)[1])
    ELSE << >>

\* C1 as stated: if the first route in registration order whose pattern matches
\* the path has another method than the request, the answer is 405 and no
\* handler is invoked, even when a later route matches path and method.
C1_FirstPatternRouteDecides ==
    \A r \in ReqIds :
        Dispatched(r) =>
            \A pattern \in {PatternRoutes(r)} :
                (pattern # {} /\ Routes[Earliest(pattern)].method # req[r].Method)
                    => req[r].res.status = 405 /\ req[r].invoked = << >>

\* C1 as amended: the answer is 405 exactly when some route's pattern matches
\* the path and no route matches both path and method; when a route matches
\* both, a handler of such a route is invoked and the answer is not 405, also
\* when an earlier route matches the path with another method.
C1_MethodNotAllowedIffNoRouteMatchesBoth ==
    \A r \in ReqIds :
        Dispatched(r) =>
            \A pattern \in {PatternRoutes(r)} :
                LET both == {k \in pattern : Routes[k].method = req[r].Method}
                IN  /\ (req[r].res.status = 405) <=> (pattern # {} /\ both = {})
                    /\ both # {} =>
                           /\ req[r].statusCode = 200
                           /\ Len(req[r].invoked) = 1
                           /\ req[r].invoked[1] \in both

\* Routes A = (/x, GET), B = (/x, POST); POST /x was dispatched to B.
C1_Witness ==
    /\ Len(Routes) = 2
    /\ PatternOf(Routes[1]) = PatX /\ Routes[1].method = "GET"
    /\ PatternOf(Routes[2]) = PatX /\ Routes[2].method = "POST"
    /\ req[1].Path = PathX /\ req[1].Method = "POST"
    /\ req[1].pc = "done"
    /\ req[1].invoked = << 2 >>
    /\ req[1].res.status = 200

\* C2: if some route matches both the path and the method, the handler of the
\* earliest such route is invoked, once, and no other handler; if none does,
\* no handler is invoked.
C2_EarliestMatchingRouteInvokedOnce ==
    \A r \in ReqIds :
        Dispatched(r) =>
            \A both \in {BothRoutes(r)} :
                req[r].invoked = IF both # {} THEN << Earliest(both) >> ELSE << >>

\* Two routes match path and method; the request completed with only the
\* first one's handler invoked.
C2_Witness ==
    /\ req[1].pc = "done"
    /\ BothRoutes(1) = {1, 2}
    /\ req[1].invoked = << 1 >>

\* C3: the route whose handler is invoked gets a Context whose Matches are the
\* submatches of the route's pattern on the request path: Matches[0] the whole
\* path, Matches[i] the i-th capture group.
C3_MatchesAreSubmatchesOfPath ==
    \A r \in ReqIds :
        (Dispatched(r) /\ req[r].invoked # << >>) =>
            /\ req[r].Matches[1] = Str(req[r].Path)
            /\ req[r].Matches
                   = WholeSubmatches(PatternOf(Routes[req[r].invoked[1]]), req[r].Path)

\* C10: a route matches a path only when its pattern matches the entire path.
C10_RouteMatchesOnlyEntirePath ==
    \A r \in ReqIds :
        Dispatched(r) =>
            \A k \in 1..Len(Routes) :
                PatternMatches(k, req[r].Path)
                    => FullMatch(PatternOf(Routes[k]), req[r].Path)

\* s.Reqs[status], 0 for a status not counted yet.
Count(reqs, status) == IF status \in DOMAIN reqs THEN reqs[status] ELSE 0

Done == {r \in ReqIds : req[r].pc = "done"}

\* No request is inside Process.
Quiet == \A r \in ReqIds : req[r].pc \in {"idle", "done"}

StatusCodes == {200, 404, 405, 500}

C5_NotFoundCountedOnce ==
    [][\A r \in ReqIds :
          (req'[r].pc \notin {"idle", "process"} /\ req'[r] # req[r]) =>
              \A pattern \in {PatternRoutes(r)} :
                  pattern = {} =>
                      /\ req'[r].res.status = 404
                      /\ req'[r].res.body = << "Not Found\n" >>
                      /\ req'[r].invoked = << >>
                      /\ req'[r].pc = "done" => req'[r].incs = << 404 >>
                      /\ ServerStat'.TotalReqs
                             = ServerStat.TotalReqs
                               + (IF req[r].pc = "writeTotal" THEN 1 ELSE 0)
                      /\ \A status \in DOMAIN ServerStat.Reqs \cup DOMAIN ServerStat'.Reqs :
                             Count(ServerStat'.Reqs, status)
                                 = Count(ServerStat.Reqs, status)
                                   + (IF req[r].pc = "writeReqs" /\ status = "404"
                                      THEN 1 ELSE 0)
      ]_vars

\* Two requests that matched no pattern completed, counted as two 404s.
C5_Witness ==
    /\ \A r \in {1, 2} : req[r].pc = "done" /\ PatternRoutes(r) = {}
    /\ req[1].res.status = 404
    /\ ServerStat.TotalReqs = 2
    /\ Count(ServerStat.Reqs, "404") = 2

\* C6: a request whose handler panicked is answered with status 500 and the
\* body "Server Error" alone.
C6_PanicAnswersGeneric500 ==
    \A r \in ReqIds :
        (req[r].pc = "done" /\ req[r].incs = << 500 >>) =>
            /\ req[r].res.status = 500
            /\ req[r].res.body = << "Server Error\n" >>

C8_CompiledAtMostOncePerPath ==
    /\ ~ServerConfig.Debug => compiles[TemplateFile] <= 1
    /\ ServerConfig.Debug =>
           /\ templateCache = << >>
           /\ compiles[TemplateFile]
                  = Cardinality({r \in ReqIds : req[r].template # ""})

\* C9: no event of request processing terminates the process.
C9_ProcessKeepsRunning == phase # "crashed"

\* C11: a request that ended as 404, 405 or as a recovered panic (500) has
\* produced exactly one request log line, whatever the value of Debug.
C11_ErrorsLogOneLine ==
    \A r \in ReqIds :
        (req[r].pc = "done" /\ req[r].incs \in {<< 404 >>, << 405 >>, << 500 >>})
            => req[r].logs = 1

\* C12: without Debug nothing orders one request's lookup of templateCache and
\* another request's store.  While a request that found the cache empty is
\* loading or about to store, another request's lookup (which finds the cache
\* empty too) and load can proceed, and two requests at the store can both
\* write templateCache, at once (the data race) or one after the other.
C12_CachePopulateUnsynchronized ==
    \A r1, r2 \in ReqIds :
        ( /\ phase = "serving"
          /\ r1 # r2
          /\ ~ServerConfig.Debug
          /\ req[r1].pc \in {"load", "store"}
          /\ TemplateFile \notin DOMAIN templateCache ) =>
            /\ req[r2].pc = "render" => ENABLED renderLookup(r2)
            /\ req[r2].pc = "load" => ENABLED renderLoad(r2)
            /\ (req[r1].pc = "store" /\ req[r2].pc = "store") =>
                   /\ ENABLED renderStore(r1)
                   /\ ENABLED renderStore(r2)
                   /\ ENABLED templateCacheRace(r1, r2)

\* Two requests found the cache empty and are both at the store.
C12_Witness ==
    /\ phase = "serving"
    /\ ~ServerConfig.Debug
    /\ TemplateFile \notin DOMAIN templateCache
    /\ req[1].pc = "store" /\ req[2].pc = "store"
    /\ req[1].Path = PathSayHiBob /\ req[2].Path = PathSayHiBob

\* C13: the status a completed request was counted under (the argument of its
\* Increment call) is the status of the response the client received.
C13_CountedStatusIsResponseStatus ==
    \A r \in ReqIds :
        req[r].pc = "done" =>
            /\ req[r].incs # << >>
            /\ IncArg(r) = req[r].res.status

\* C14: a step changes ServerConfig.Routes only by appending one route at the
\* end, during registration, leaving the earlier routes and their order as
\* they were; and no step of Process/process (a step of a request, on the 200,
\* 404, 405 and recovered-panic paths) changes ServerConfig.Routes.
C14_RoutesAppendOnly ==
    [][ /\ Routes' # Routes =>
               /\ phase = "init"
               /\ Len(Routes') = Len(Routes) + 1
               /\ SubSeq(Routes', 1, Len(Routes)) = Routes
        /\ req' # req => Routes' = Routes
      ]_vars

\* Two different routes were registered one after the other, and a request was
\* processed to its end through the recovery of a panic.
C14_Witness ==
    /\ Len(Routes) = 2
    /\ Routes[1] # Routes[2]
    /\ req[1].pc = "done"
    /\ req[1].incs = << 500 >>
    /\ req[1].invoked = << 2 >>

\* The request has left the handler for the recovery of Process or beyond.
AfterPanic(r) ==
    req[r].pc \in {"recover", "Lock", "readTotal", "writeTotal", "readReqs",
                   "writeReqs", "Unlock", "done"}

\* C15: a request whose render failed (load/compile or execution) goes to the
\* recovery of Process and nowhere else: it is counted once, as 500, answered
\* 500, and does not try the render again.  The step in which a load fails
\* leaves templateCache as it was, and a request that looks up a path that is
\* not in templateCache goes on to load it, also after another request's load
\* of that path failed.
C15_RenderFailureIsCounted500 ==
    /\ [](\A r \in ReqIds :
              req[r].renderErr # "" =>
                  /\ AfterPanic(r)
                  /\ req[r].incs = IF req[r].pc = "recover" THEN << >> ELSE << 500 >>
                  /\ req[r].pc = "done" =>
                         /\ req[r].res.status = 500
                         /\ Count(ServerStat.Reqs, "500") >= 1)
    /\ [][\A r \in ReqIds :
              /\ (req[r].renderErr = "" /\ req'[r].renderErr = "load")
                     => templateCache' = templateCache
              /\ ( /\ req[r].pc = "render" /\ req'[r].pc # "render"
                   /\ ~ServerConfig.Debug
                   /\ TemplateFile \notin DOMAIN templateCache )
                     => req'[r].pc = "load"
       ]_vars

\* Without Debug, the first request's load failed and it ended as a counted
\* 500 with nothing cached; the file then appeared, and the second request
\* loaded it, cached it and completed.
C15_Witness ==
    /\ ~ServerConfig.Debug
    /\ req[1].pc = "done" /\ req[1].renderErr = "load" /\ req[1].incs = << 500 >>
    /\ req[1].res.status = 500
    /\ req[2].pc = "done" /\ req[2].renderErr = "" /\ req[2].incs = << 200 >>
    /\ req[2].res.body = << "Hi Bob" >>
    /\ TemplateFile \in DOMAIN templateCache
    /\ Count(ServerStat.Reqs, "500") = 1

\* The sum of the values of a Reqs map.
RECURSIVE SumReqs(_)
SumReqs(reqs) ==
    IF DOMAIN reqs = {} THEN 0
    ELSE LET k == CHOOSE k \in DOMAIN reqs : TRUE
         IN  reqs[k] + SumReqs([j \in DOMAIN reqs \ {k} |-> reqs[j]])

\* C16: whenever no goroutine holds the Stat mutex, TotalReqs is the sum of
\* the values in Reqs and every value in Reqs is at least 1; and no step
\* decreases TotalReqs, decreases an entry of Reqs or removes one.
C16_StatConsistentWhenUnlocked ==
    /\ [](MutexFree =>
              /\ ServerStat.TotalReqs = SumReqs(ServerStat.Reqs)
              /\ \A k \in DOMAIN ServerStat.Reqs : ServerStat.Reqs[k] >= 1)
    /\ [][ /\ ServerStat'.TotalReqs >= ServerStat.TotalReqs
           /\ \A k \in DOMAIN ServerStat.Reqs :
                  /\ k \in DOMAIN ServerStat'.Reqs
                  /\ ServerStat'.Reqs[k] >= ServerStat.Reqs[k]
         ]_vars

\* Two requests were counted under different statuses and the mutex is free.
C16_Witness ==
    /\ MutexFree
    /\ Done = ReqIds
    /\ ServerStat.TotalReqs = 2
    /\ Count(ServerStat.Reqs, "200") = 1
    /\ Count(ServerStat.Reqs, "500") = 1

\* The request ran serverStats and json.Marshal has read the whole Stat.
Snapshot(r) ==
    /\ req[r].invoked # << >>
    /\ Routes[req[r].invoked[1]].handler = "serverStats"
    /\ req[r].pc \notin {"handler", "marshal"}

\* C17: the snapshot serverStats emits is consistent (its TotalReqs is the sum
\* of its per-status counts), and json.Marshal is never about to read the Reqs
\* map while an Increment is about to write it.
C17_StatsSnapshotConsistent ==
    /\ \A r \in ReqIds :
           Snapshot(r) => req[r].snap.TotalReqs = SumReqs(req[r].snap.Reqs)
    /\ \A r1, r2 \in ReqIds :
           ~(r1 # r2 /\ req[r1].pc = "writeReqs" /\ req[r2].pc = "marshal")

\* The pcs of a request between s.Lock() and the deferred s.Unlock().
InIncrement(r) ==
    req[r].pc \in {"readTotal", "writeTotal", "readReqs", "writeReqs", "Unlock"}

\* C18: under fair scheduling every request that entered Process eventually
\* completes, counted once; the Stat mutex, when held, is eventually released;
\* and the mutex is held only by a request inside Increment, never by one
\* running a handler.
C18_EveryRequestCompletes ==
    /\ \A r \in ReqIds :
           (req[r].pc # "idle") ~> (req[r].pc = "done" /\ Len(req[r].incs) = 1)
    /\ ServerStat.locked ~> MutexFree
    /\ [](ServerStat.locked <=> \E r \in ReqIds : InIncrement(r))

\* What holds of the above under SpecFair: every request that entered Process
\* completes, counted once, and the mutex is released, unless a data race on
\* templateCache or on Reqs has ended the process.
CompletesUnlessCrashed ==
    /\ \A r \in ReqIds :
           (req[r].pc # "idle")
               ~> ((req[r].pc = "done" /\ Len(req[r].incs) = 1) \/ phase = "crashed")
    /\ ServerStat.locked ~> (MutexFree \/ phase = "crashed")
    /\ [](ServerStat.locked <=> \E r \in ReqIds : InIncrement(r))

=============================================================================
